---------------------------- MODULE Spec2Model ----------------------------
(***************************************************************************)
(* A model of the time-value layer of the PulseAudio Rust binding:        *)
(* pulse-binding/src/time/timeval.rs (Timeval, its ordering, difference,  *)
(* checked arithmetic, operator forms and the monotonic/wallclock         *)
(* reconciliation set_rt / wallclock_from_rtclock).                       *)
(*                                                                         *)
(* MicroSeconds, USEC_INVALID, the MicroSeconds<->Timeval<->Duration      *)
(* conversions, UnixTs/MonotonicTs and the foreign primitives             *)
(* pa_timeval_cmp / pa_timeval_diff are used by timeval.rs but defined    *)
(* elsewhere; they are modelled from the specification document.          *)
(*                                                                         *)
(* TLC's integers are 32 bits wide, so the signed 64-bit machine word of  *)
(* the program is modelled by the signed range I64_MIN..I64_MAX around    *)
(* WordMax; every overflow test is written so that no intermediate value  *)
(* leaves that range.                                                     *)
(***************************************************************************)
EXTENDS Integers, Sequences, FiniteSets, TLC

\* ------------------------------------------------------------------ bounds
\* The largest value of the model's machine word (stands for i64::MAX).
WordMax == 2147483000
\* Number of threads calling wallclock_from_rtclock concurrently.
NThreads == 2
\* The wallclock and the monotonic clock each tick at most this many times.
MaxTicks == 1

\* ------------------------------------------------------- the machine word
I64_MAX == WordMax
I64_MIN == (0 - WordMax) - 1

\* Rust's / and % on signed integers truncate toward zero.
TruncDiv(a, b) == IF a >= 0 THEN a \div b ELSE 0 - ((0 - a) \div b)
TruncRem(a, b) == a - TruncDiv(a, b) * b

\* a + b leaves the word?
AddOverflows(a, b) ==
    \/ b > 0 /\ a > I64_MAX - b
    \/ b < 0 /\ a < I64_MIN - b
\* a - b leaves the word?
SubOverflows(a, b) ==
    \/ b < 0 /\ a > I64_MAX + b
    \/ b > 0 /\ a < I64_MIN + b
\* a * n leaves the word?  (n is an unsigned 32-bit count)
MulOverflows(a, n) ==
    /\ n > 0
    /\ \/ a > I64_MAX \div n
       \/ a < 0 - ((0 - I64_MIN) \div n)
\* a + b reduced into the word (two's complement wraparound).
WrapAdd(a, b) ==
    IF b > 0 /\ a > I64_MAX - b THEN ((a - I64_MAX) + (b - 1)) + I64_MIN
    ELSE IF b < 0 /\ a < I64_MIN - b THEN ((a - I64_MIN) + (b + 1)) + I64_MAX
    ELSE a + b
\* a - b reduced into the word (two's complement wraparound).
WrapSub(a, b) ==
    IF b < 0 /\ a > I64_MAX + b THEN ((a - I64_MAX) + ((0 - 1) - b)) + I64_MIN
    ELSE IF b > 0 /\ a < I64_MIN + b THEN ((a - I64_MIN) + (1 - b)) + I64_MAX
    ELSE a - b

\* Option and panic outcomes.
None == [some |-> FALSE]
Some(v) == [some |-> TRUE, val |-> v]
Panic == [panic |-> TRUE]
Ok(v) == [panic |-> FALSE, val |-> v]

\* Option::unwrap: the value of Some, a panic on None.
unwrap(o) == IF o.some THEN Ok(o.val) ELSE Panic

\* ------------------------------------------------------------ MicroSeconds
USEC_INVALID == I64_MIN
MICROS_PER_SEC == 1000000
NANOS_PER_MICRO == 1000

\* MicroSeconds::checked_add and friends: no value on overflow or when an
\* operand is the invalid sentinel.
us_checked_add(a, b) ==
    IF a = USEC_INVALID \/ b = USEC_INVALID \/ AddOverflows(a, b)
    THEN None ELSE Some(a + b)
us_checked_sub(a, b) ==
    IF a = USEC_INVALID \/ b = USEC_INVALID \/ SubOverflows(a, b)
    THEN None ELSE Some(a - b)
us_checked_mul(a, n) ==
    IF a = USEC_INVALID \/ MulOverflows(a, n)
    THEN None ELSE Some(a * n)
us_checked_div(a, n) ==
    IF a = USEC_INVALID \/ n = 0
    THEN None ELSE Some(TruncDiv(a, n))
us_checked_rem(a, n) ==
    IF a = USEC_INVALID \/ n = 0
    THEN None ELSE Some(TruncRem(a, n))

\* --------------------------------------------------------------- Timeval
\* Timeval::new
new(sec, usec) == [tv_sec |-> sec, tv_usec |-> usec]
\* Timeval::new_zero
new_zero == new(0, 0)

\* The bit set in tv_usec to mark a monotonic-time value.
PA_TIMEVAL_RTCLOCK == 1073741824

\* Bit 30 of a two's-complement field.
HasRtFlag(x) == (x \div PA_TIMEVAL_RTCLOCK) % 2 = 1
\* x | PA_TIMEVAL_RTCLOCK
OrRtFlag(x) == IF HasRtFlag(x) THEN x ELSE x + PA_TIMEVAL_RTCLOCK
\* x & ~PA_TIMEVAL_RTCLOCK
ClearRtFlag(x) == IF HasRtFlag(x) THEN x - PA_TIMEVAL_RTCLOCK ELSE x

\* The total microseconds of a Timeval fit the word
\* (tv_sec * MICROS_PER_SEC + tv_usec is computed without overflow).
Representable(tv) ==
    /\ tv.tv_sec <= I64_MAX \div MICROS_PER_SEC
    /\ tv.tv_sec >= 0 - (I64_MAX \div MICROS_PER_SEC)
    /\ ~AddOverflows(tv.tv_sec * MICROS_PER_SEC, tv.tv_usec)

\* impl From<Timeval> for MicroSeconds
us_from_timeval(tv) == tv.tv_sec * MICROS_PER_SEC + tv.tv_usec
\* The decomposition with a non-negative remainder beside a truncated quotient.
timeval_from_us_mixed(us) ==
    new(TruncDiv(us, MICROS_PER_SEC), us % MICROS_PER_SEC)
\* impl From<MicroSeconds> for Timeval
timeval_from_us(us) ==
    new(TruncDiv(us, MICROS_PER_SEC), TruncRem(us, MICROS_PER_SEC))
\* impl From<Duration> for MicroSeconds
us_from_duration(d) == d.secs * MICROS_PER_SEC + d.nanos \div NANOS_PER_MICRO

\* ------------------------------------------------- comparison, difference
\* capi::pa_timeval_cmp: -1, 0 or 1 by the raw fields, seconds first.
pa_timeval_cmp(a, b) ==
    IF a.tv_sec < b.tv_sec THEN 0 - 1
    ELSE IF a.tv_sec > b.tv_sec THEN 1
    ELSE IF a.tv_usec < b.tv_usec THEN 0 - 1
    ELSE IF a.tv_usec > b.tv_usec THEN 1
    ELSE 0

\* capi::pa_timeval_diff: the total microseconds of a minus those of b.
pa_timeval_diff(a, b) == WrapSub(us_from_timeval(a), us_from_timeval(b))

\* eq comparing the seconds only.
eq_secs_only(a, b) == a.tv_sec = b.tv_sec
\* impl PartialEq for Timeval
eq(a, b) == a.tv_sec = b.tv_sec /\ a.tv_usec = b.tv_usec

\* impl Ord for Timeval
cmp(a, b) ==
    LET r == pa_timeval_cmp(a, b)
    IN  IF r = 0 THEN "Equal" ELSE IF r < 0 THEN "Less" ELSE "Greater"

\* impl PartialOrd for Timeval
partial_cmp(a, b) == Some(cmp(a, b))

\* Timeval::diff
diff(a, b) == pa_timeval_diff(a, b)

\* ---------------------------------------------------- checked arithmetic
\* and_then(|i| Some(i.into()))
into_timeval(o) == IF o.some THEN Some(timeval_from_us(o.val)) ELSE None

\* checked_add without the carry from the microseconds into the seconds.
checked_add_no_carry(self, other) ==
    LET o == us_checked_add(us_from_timeval(self), us_from_timeval(other))
    IN  IF o.some
        THEN Some(new(self.tv_sec + other.tv_sec,
                      TruncRem(o.val, MICROS_PER_SEC)))
        ELSE None
checked_add(self, other) ==
    LET self_us == us_from_timeval(self)
        other_us == us_from_timeval(other)
    IN  into_timeval(us_checked_add(self_us, other_us))

\* checked_add_us with wrapping_add in place of checked_add.
checked_add_us_wrapping(self, rhs) ==
    Some(timeval_from_us(WrapAdd(us_from_timeval(self), rhs)))
checked_add_us(self, rhs) ==
    LET self_us == us_from_timeval(self)
    IN  into_timeval(us_checked_add(self_us, rhs))

checked_add_duration(self, rhs) ==
    LET self_us == us_from_timeval(self)
        rhs_us == us_from_duration(rhs)
    IN  into_timeval(us_checked_add(self_us, rhs_us))

checked_sub(self, other) ==
    LET self_us == us_from_timeval(self)
        other_us == us_from_timeval(other)
    IN  into_timeval(us_checked_sub(self_us, other_us))

\* checked_sub_us delegating to checked_add.
checked_sub_us_adds(self, rhs) ==
    LET self_us == us_from_timeval(self)
    IN  into_timeval(us_checked_add(self_us, rhs))
checked_sub_us(self, rhs) ==
    LET self_us == us_from_timeval(self)
    IN  into_timeval(us_checked_sub(self_us, rhs))

checked_sub_duration(self, rhs) ==
    LET self_us == us_from_timeval(self)
        rhs_us == us_from_duration(rhs)
    IN  into_timeval(us_checked_sub(self_us, rhs_us))

checked_mul(self, rhs) ==
    LET self_us == us_from_timeval(self)
    IN  into_timeval(us_checked_mul(self_us, rhs))

checked_div(self, rhs) ==
    LET self_us == us_from_timeval(self)
    IN  into_timeval(us_checked_div(self_us, rhs))

checked_rem(self, rhs) ==
    LET self_us == us_from_timeval(self)
    IN  into_timeval(us_checked_rem(self_us, rhs))

\* The checked form named op.
checked(op, self, rhs) ==
    CASE op = "add" -> checked_add(self, rhs)
      [] op = "add_us" -> checked_add_us(self, rhs)
      [] op = "add_duration" -> checked_add_duration(self, rhs)
      [] op = "sub" -> checked_sub(self, rhs)
      [] op = "sub_us" -> checked_sub_us(self, rhs)
      [] op = "sub_duration" -> checked_sub_duration(self, rhs)
      [] op = "mul" -> checked_mul(self, rhs)
      [] op = "div" -> checked_div(self, rhs)
      [] op = "rem" -> checked_rem(self, rhs)

\* ------------------------------------------------------- operator forms
\* *self = <checked form>.unwrap(): self is written only when unwrap returns.
assigned(self, r) ==
    IF r.panic THEN [panic |-> TRUE, self |-> self]
    ELSE [panic |-> FALSE, self |-> r.val]

\* impl Add for Timeval
add(self, other) == unwrap(checked_add(self, other))
\* impl AddAssign for Timeval
add_assign(self, rhs) == assigned(self, unwrap(checked_add(self, rhs)))

\* self + rhs with unwrap_or(self) in place of unwrap.
add_us_or_self(self, rhs) ==
    LET o == checked_add_us(self, rhs) IN Ok(IF o.some THEN o.val ELSE self)
\* impl Add<MicroSeconds> for Timeval
add_us(self, rhs) == unwrap(checked_add_us(self, rhs))
\* impl AddAssign<MicroSeconds> for Timeval
add_assign_us(self, rhs) == assigned(self, unwrap(checked_add_us(self, rhs)))

\* impl Add<Duration> for Timeval
add_duration(self, rhs) == unwrap(checked_add_duration(self, rhs))
\* impl AddAssign<Duration> for Timeval
add_assign_duration(self, rhs) == assigned(self, unwrap(checked_add_duration(self, rhs)))

\* impl Sub for Timeval
sub(self, other) == unwrap(checked_sub(self, other))
\* impl SubAssign for Timeval
sub_assign(self, rhs) == assigned(self, unwrap(checked_sub(self, rhs)))

\* impl Sub<MicroSeconds> for Timeval
sub_us(self, rhs) == unwrap(checked_sub_us(self, rhs))
\* impl SubAssign<MicroSeconds> for Timeval
sub_assign_us(self, rhs) == assigned(self, unwrap(checked_sub_us(self, rhs)))

\* impl Sub<Duration> for Timeval
sub_duration(self, rhs) == unwrap(checked_sub_duration(self, rhs))
\* impl SubAssign<Duration> for Timeval
sub_assign_duration(self, rhs) == assigned(self, unwrap(checked_sub_duration(self, rhs)))

\* impl Mul<u32> for Timeval
mul(self, rhs) == unwrap(checked_mul(self, rhs))
\* impl MulAssign<u32> for Timeval
mul_assign(self, rhs) == assigned(self, unwrap(checked_mul(self, rhs)))

\* impl Div<u32> for Timeval
div(self, rhs) == unwrap(checked_div(self, rhs))
\* impl DivAssign<u32> for Timeval
div_assign(self, rhs) == assigned(self, unwrap(checked_div(self, rhs)))

\* impl Rem<u32> for Timeval
rem(self, rhs) == unwrap(checked_rem(self, rhs))
\* impl RemAssign<u32> for Timeval
rem_assign(self, rhs) == assigned(self, unwrap(checked_rem(self, rhs)))

\* The operator form named op (self + rhs, self - rhs, ...).
operator(op, self, rhs) ==
    CASE op = "add" -> add(self, rhs)
      [] op = "add_us" -> add_us(self, rhs)
      [] op = "add_duration" -> add_duration(self, rhs)
      [] op = "sub" -> sub(self, rhs)
      [] op = "sub_us" -> sub_us(self, rhs)
      [] op = "sub_duration" -> sub_duration(self, rhs)
      [] op = "mul" -> mul(self, rhs)
      [] op = "div" -> div(self, rhs)
      [] op = "rem" -> rem(self, rhs)

\* The assigning form named op (self += rhs, self -= rhs, ...).
op_assign(op, self, rhs) ==
    CASE op = "add" -> add_assign(self, rhs)
      [] op = "add_us" -> add_assign_us(self, rhs)
      [] op = "add_duration" -> add_assign_duration(self, rhs)
      [] op = "sub" -> sub_assign(self, rhs)
      [] op = "sub_us" -> sub_assign_us(self, rhs)
      [] op = "sub_duration" -> sub_assign_duration(self, rhs)
      [] op = "mul" -> mul_assign(self, rhs)
      [] op = "div" -> div_assign(self, rhs)
      [] op = "rem" -> rem_assign(self, rhs)

\* ------------------------------------------ monotonic/wallclock conversion
\* The body of wallclock_from_rtclock after its two clock reads: the match
\* evaluates wc_now + diff or wc_now - diff (either may panic in unwrap),
\* its value is dropped by `let _`, and wc_now is stored in self.
wallclock_value(self, wc_now, rt_now) ==
    LET computed == IF cmp(rt_now, self) = "Less"
                    THEN add_us(wc_now, diff(self, rt_now))
                    ELSE sub_us(wc_now, diff(rt_now, self))
    IN  IF computed.panic THEN Panic ELSE Ok(wc_now)

\* Timeval::wallclock_from_rtclock, given what UnixTs::now() and
\* MonotonicTs::now() return during the call.
wallclock_from_rtclock(self, wc_now_ts, rt_now_ts) ==
    LET wc_now == wc_now_ts
        rt_now == timeval_from_us(rt_now_ts)
        r == wallclock_value(self, wc_now, rt_now)
    IN  [panic |-> r.panic,
         self |-> IF r.panic THEN self ELSE r.val,
         wc_reads |-> 1, rt_reads |-> 1]

\* set_rt without its assert_ne!.
set_rt_unasserted(self, v, rtclock, wc_now_ts, rt_now_ts) ==
    LET stored == timeval_from_us(v)
    IN  IF rtclock
        THEN [panic |-> FALSE,
              self |-> [stored EXCEPT !.tv_usec = OrRtFlag(@)],
              wc_reads |-> 0, rt_reads |-> 0]
        ELSE wallclock_from_rtclock(stored, wc_now_ts, rt_now_ts)
\* set_rt without the |= PA_TIMEVAL_RTCLOCK.
set_rt_unflagged(self, v, rtclock, wc_now_ts, rt_now_ts) ==
    IF v = USEC_INVALID
    THEN [panic |-> TRUE, self |-> self, wc_reads |-> 0, rt_reads |-> 0]
    ELSE LET stored == timeval_from_us(v)
         IN  IF rtclock
             THEN [panic |-> FALSE, self |-> stored,
                   wc_reads |-> 0, rt_reads |-> 0]
             ELSE wallclock_from_rtclock(stored, wc_now_ts, rt_now_ts)
\* Timeval::set_rt, given what the clocks return if they are read.
set_rt(self, v, rtclock, wc_now_ts, rt_now_ts) ==
    IF v = USEC_INVALID
    THEN [panic |-> TRUE, self |-> self, wc_reads |-> 0, rt_reads |-> 0]
    ELSE LET stored == timeval_from_us(v)
         IN  IF rtclock
             THEN [panic |-> FALSE,
                   self |-> [stored EXCEPT !.tv_usec = OrRtFlag(@)],
                   wc_reads |-> 0, rt_reads |-> 0]
             ELSE wallclock_from_rtclock(stored, wc_now_ts, rt_now_ts)

\* ------------------------------------------------------------------ state
VARIABLES
    self,       \* the Timeval a sequential caller operates on
    call,       \* the operation applied to it, with its arguments
    ret,        \* what that operation returned, or that it panicked
    pc,         \* per thread: its position inside wallclock_from_rtclock
    tvs,        \* per thread: the Timeval it converts (its own `self`)
    input,      \* per thread: the value of its Timeval before the call
    wc_now,     \* per thread: its local wc_now
    rt_now,     \* per thread: its local rt_now
    reads,      \* per thread: how often it has read each clock
    wallclock,  \* the system wallclock, in ticks
    rtclock,    \* the system monotonic clock, in ticks
    ctx_state,  \* the pa_context_state_t of a context
    ctx_query,  \* what pa_context_is_good last returned for that state
    family,     \* the flag family in use: sink or source flags
    flags,      \* a pa_sink_flags_t / pa_source_flags_t value
    flags_set,  \* the names of the flags OR-ed into it
    flag_test   \* the last test of one flag with a bitwise AND

seq_vars == <<self, call, ret>>
conc_vars == <<pc, tvs, input, wc_now, rt_now, reads, wallclock, rtclock>>
sys_vars == <<ctx_state, ctx_query, family, flags, flags_set, flag_test>>
vars == <<self, call, ret, pc, tvs, input, wc_now, rt_now, reads,
          wallclock, rtclock, ctx_state, ctx_query, family, flags, flags_set,
          flag_test>>

\* ----------------------------------------------------------------- inputs
SecInputs == {0 - 1, 0, 100, 101, I64_MAX \div MICROS_PER_SEC - 1}
UsecInputs == {0 - 1, 0, 100000, 500000, 600000, 999999, 1500000,
               PA_TIMEVAL_RTCLOCK + 1}
\* Any pair of raw fields can be built with Timeval::new.
RawTimevals == {new(s, u) : s \in SecInputs, u \in UsecInputs}
                   \cup {timeval_from_us(I64_MAX), timeval_from_us(USEC_INVALID)}
\* The Timevals whose total microseconds fit the word.
Timevals == {tv \in RawTimevals : Representable(tv)}
UsInputs == {USEC_INVALID, I64_MIN + 1, 0 - 1500000, 0 - 1, 0, 1, 600000,
             2500000, I64_MAX - 1, I64_MAX}
Durations == {[secs |-> s, nanos |-> n] :
                 s \in {0, 1, I64_MAX \div MICROS_PER_SEC - 1},
                 n \in {0, 999, 600000000, 999999999}}
U32Inputs == {0, 1, 2, 3, 1000, I64_MAX}
\* What UnixTs::now() can return: a normalised wallclock Timeval.
WallclockReadings == {new(1000, 0), new(1000, 999999), new(2000, 500000)}
\* What MonotonicTs::now() can return: microseconds since the clock's origin.
MonotonicReadings == {0, 100500000, 100600000, 2000000000}

Ops == {"add", "add_us", "add_duration", "sub", "sub_us", "sub_duration",
        "mul", "div", "rem"}
RhsInputs(op) ==
    CASE op \in {"add", "sub"} -> Timevals
      [] op \in {"add_us", "sub_us"} -> UsInputs
      [] op \in {"add_duration", "sub_duration"} -> Durations
      [] op \in {"mul", "div", "rem"} -> U32Inputs

Threads == 1..NThreads
\* The clocks as functions of their tick counts.
WallclockAt(n) == new(1000 + n, 250000)
MonotonicAt(n) == 100000000 + n * 700000
ThreadInputs == {new(100, 500000), new(101, 0)}

\* ------------------------------------------------------ sequential caller
NoCall == [kind |-> "new"]
Fresh == call.kind = "new"

SeqInit ==
    /\ self \in RawTimevals
    /\ call = NoCall
    /\ ret = Ok(self)

\* self.checked_<op>(rhs)
CallChecked ==
    /\ UNCHANGED conc_vars
    /\ UNCHANGED sys_vars
    /\ Fresh /\ Representable(self)
    /\ \E op \in Ops : \E rhs \in RhsInputs(op) :
          /\ call' = [kind |-> "checked", op |-> op, old |-> self, rhs |-> rhs]
          /\ ret' = checked(op, self, rhs)
    /\ UNCHANGED self

\* self <op> rhs
CallOperator ==
    /\ UNCHANGED conc_vars
    /\ UNCHANGED sys_vars
    /\ Fresh /\ Representable(self)
    /\ \E op \in Ops : \E rhs \in RhsInputs(op) :
          /\ call' = [kind |-> "operator", op |-> op, old |-> self, rhs |-> rhs]
          /\ ret' = operator(op, self, rhs)
    /\ UNCHANGED self

\* self <op>= rhs
CallOpAssign ==
    /\ UNCHANGED conc_vars
    /\ UNCHANGED sys_vars
    /\ Fresh /\ Representable(self)
    /\ \E op \in Ops : \E rhs \in RhsInputs(op) :
          LET r == op_assign(op, self, rhs)
          IN  /\ call' = [kind |-> "assign", op |-> op, old |-> self, rhs |-> rhs]
              /\ ret' = [panic |-> r.panic]
              /\ self' = r.self

\* self.set_rt(v, rtclock)
CallSetRt ==
    /\ UNCHANGED conc_vars
    /\ UNCHANGED sys_vars
    /\ Fresh
    /\ \E v \in UsInputs, rt \in BOOLEAN,
          wc \in WallclockReadings, mono \in MonotonicReadings :
          LET r == set_rt(self, v, rt, wc, mono)
          IN  /\ call' = [kind |-> "set_rt", old |-> self, v |-> v, rtclock |-> rt,
                          wc_now |-> IF r.wc_reads > 0 THEN wc ELSE new_zero,
                          rt_now |-> IF r.rt_reads > 0
                                     THEN timeval_from_us(mono) ELSE new_zero]
              /\ ret' = [panic |-> r.panic, wc_reads |-> r.wc_reads,
                         rt_reads |-> r.rt_reads]
              /\ self' = r.self

\* self.wallclock_from_rtclock()
CallWallclockFromRtclock ==
    /\ UNCHANGED conc_vars
    /\ UNCHANGED sys_vars
    /\ Fresh /\ Representable(self)
    /\ \E wc \in WallclockReadings, mono \in MonotonicReadings :
          LET r == wallclock_from_rtclock(self, wc, mono)
          IN  /\ call' = [kind |-> "wallclock_from_rtclock", old |-> self,
                          wc_now |-> wc, rt_now |-> timeval_from_us(mono)]
              /\ ret' = [panic |-> r.panic, wc_reads |-> r.wc_reads,
                         rt_reads |-> r.rt_reads]
              /\ self' = r.self

\* Timeval::diff(&self, &b), Timeval::diff(&b, &self), and
\* self.checked_sub_us(Timeval::diff(&self, &b))
CallDiff ==
    /\ UNCHANGED conc_vars
    /\ UNCHANGED sys_vars
    /\ Fresh /\ Representable(self)
    /\ \E b \in Timevals :
          /\ call' = [kind |-> "diff", old |-> self, b |-> b]
          /\ ret' = [ab |-> diff(self, b), ba |-> diff(b, self),
                     back |-> checked_sub_us(self, diff(self, b))]
    /\ UNCHANGED self

\* self.cmp(&b), b.cmp(&self), b.cmp(&c), self.cmp(&c), self == b
CallCmp ==
    /\ UNCHANGED conc_vars
    /\ UNCHANGED sys_vars
    /\ Fresh
    /\ \E b \in RawTimevals, c \in RawTimevals :
          /\ call' = [kind |-> "cmp", old |-> self, b |-> b, c |-> c]
          /\ ret' = [ab |-> cmp(self, b), ba |-> cmp(b, self), bc |-> cmp(b, c),
                     ac |-> cmp(self, c), eq_ab |-> eq(self, b),
                     partial_ab |-> partial_cmp(self, b)]
    /\ UNCHANGED self

\* *self = v.into(); MicroSeconds::from(*self)
CallRoundTrip ==
    /\ UNCHANGED conc_vars
    /\ UNCHANGED sys_vars
    /\ Fresh
    /\ \E v \in UsInputs \ {USEC_INVALID} :
          /\ call' = [kind |-> "round_trip", old |-> self, v |-> v]
          /\ self' = timeval_from_us(v)
          /\ ret' = [us |-> us_from_timeval(timeval_from_us(v))]

Next ==
    \/ CallChecked
    \/ CallOperator
    \/ CallOpAssign
    \/ CallSetRt
    \/ CallWallclockFromRtclock
    \/ CallDiff
    \/ CallCmp
    \/ CallRoundTrip

\* No context and no flags value in use.
SysIdle ==
    /\ ctx_state = "Unconnected"
    /\ ctx_query = [asked |-> FALSE]
    /\ family = "sink"
    /\ flags = 0
    /\ flags_set = {}
    /\ flag_test = [asked |-> FALSE]

ConcIdle ==
    /\ pc = [t \in Threads |-> "idle"]
    /\ tvs = [t \in Threads |-> new_zero]
    /\ input = tvs
    /\ wc_now = [t \in Threads |-> new_zero]
    /\ rt_now = [t \in Threads |-> new_zero]
    /\ reads = [t \in Threads |-> [wc |-> 0, rt |-> 0]]
    /\ wallclock = 0
    /\ rtclock = 0

Init == SeqInit /\ ConcIdle /\ SysIdle
Spec == Init /\ [][Next]_vars

\* ------------------------------- concurrent wallclock_from_rtclock callers
ConcInit ==
    /\ pc = [t \in Threads |-> "call"]
    /\ tvs \in [Threads -> ThreadInputs]
    /\ input = tvs
    /\ wc_now = [t \in Threads |-> new_zero]
    /\ rt_now = [t \in Threads |-> new_zero]
    /\ reads = [t \in Threads |-> [wc |-> 0, rt |-> 0]]
    /\ wallclock = 0
    /\ rtclock = 0

\* let wc_now = (UnixTs::now()).0;
ReadWallclock(t) ==
    /\ UNCHANGED seq_vars
    /\ UNCHANGED sys_vars
    /\ pc[t] = "call"
    /\ wc_now' = [wc_now EXCEPT ![t] = WallclockAt(wallclock)]
    /\ reads' = [reads EXCEPT ![t].wc = @ + 1]
    /\ pc' = [pc EXCEPT ![t] = "wc_read"]
    /\ UNCHANGED <<tvs, input, rt_now, wallclock, rtclock>>

\* let rt_now = Timeval::from((MonotonicTs::now()).0);
ReadMonotonic(t) ==
    /\ UNCHANGED seq_vars
    /\ UNCHANGED sys_vars
    /\ pc[t] = "wc_read"
    /\ rt_now' = [rt_now EXCEPT ![t] = timeval_from_us(MonotonicAt(rtclock))]
    /\ reads' = [reads EXCEPT ![t].rt = @ + 1]
    /\ pc' = [pc EXCEPT ![t] = "rt_read"]
    /\ UNCHANGED <<tvs, input, wc_now, wallclock, rtclock>>

\* The store as it would be were wc_now one variable shared by all callers:
\* the thread stores the snapshot taken last, by whichever thread.
StoreShared(t) ==
    /\ UNCHANGED seq_vars
    /\ UNCHANGED sys_vars
    /\ pc[t] = "rt_read"
    /\ \E u \in Threads :
          /\ reads[u].wc > 0
          /\ \A w \in Threads :
                reads[w].wc > 0 => pa_timeval_cmp(wc_now[w], wc_now[u]) <= 0
          /\ tvs' = [tvs EXCEPT ![t] = wc_now[u]]
    /\ pc' = [pc EXCEPT ![t] = "done"]
    /\ UNCHANGED <<input, wc_now, rt_now, reads, wallclock, rtclock>>
\* The match on rt_now.cmp(self) and *self = wc_now, on the thread's locals.
Store(t) ==
    /\ UNCHANGED seq_vars
    /\ UNCHANGED sys_vars
    /\ pc[t] = "rt_read"
    /\ LET r == wallclock_value(tvs[t], wc_now[t], rt_now[t])
       IN  /\ tvs' = [tvs EXCEPT ![t] = IF r.panic THEN @ ELSE r.val]
           /\ pc' = [pc EXCEPT ![t] = IF r.panic THEN "panicked" ELSE "done"]
    /\ UNCHANGED <<input, wc_now, rt_now, reads, wallclock, rtclock>>

\* Time passes on the wallclock.
TickWallclock ==
    /\ UNCHANGED seq_vars
    /\ UNCHANGED sys_vars
    /\ wallclock < MaxTicks
    /\ wallclock' = wallclock + 1
    /\ UNCHANGED <<pc, tvs, input, wc_now, rt_now, reads, rtclock>>

\* Time passes on the monotonic clock.
TickMonotonic ==
    /\ UNCHANGED seq_vars
    /\ UNCHANGED sys_vars
    /\ rtclock < MaxTicks
    /\ rtclock' = rtclock + 1
    /\ UNCHANGED <<pc, tvs, input, wc_now, rt_now, reads, wallclock>>

SeqIdle ==
    /\ self = new_zero
    /\ call = NoCall
    /\ ret = Ok(self)

ConcStart == SeqIdle /\ ConcInit /\ SysIdle
ConcNext ==
    \/ \E t \in Threads : ReadWallclock(t)
    \/ \E t \in Threads : ReadMonotonic(t)
    \/ \E t \in Threads : Store(t)
    \/ TickWallclock
    \/ TickMonotonic

ConcSpec == ConcStart /\ [][ConcNext]_vars

\* ----------------------------------------------------------------- claims
\* The total microseconds of the Timeval the last call was applied to, and
\* of its right-hand side.
OldUs == us_from_timeval(call.old)
RhsUs ==
    CASE call.op \in {"add", "sub"} -> us_from_timeval(call.rhs)
      [] call.op \in {"add_us", "sub_us"} -> call.rhs
      [] call.op \in {"add_duration", "sub_duration"} -> us_from_duration(call.rhs)
      [] OTHER -> 0

\* C1: wallclock_from_rtclock, given the snapshots wc_now and rt_now, replaces
\* self with wc_now + diff(self, rt_now) when rt_now < self and with
\* wc_now - diff(rt_now, self) otherwise.
C1_StoresWallclockPlusOffset ==
    (call.kind = "wallclock_from_rtclock" /\ ~ret.panic) =>
        self = IF pa_timeval_cmp(call.rt_now, call.old) < 0
               THEN timeval_from_us(us_from_timeval(call.wc_now)
                                    + diff(call.old, call.rt_now))
               ELSE timeval_from_us(us_from_timeval(call.wc_now)
                                    - diff(call.rt_now, call.old))

\* C2: for every valid v, after set_rt(v, true) bit 30 of tv_usec is set, every
\* other bit of the value is that of the plain decomposition of v and no clock
\* was read; after set_rt(v, false) bit 30 of tv_usec is clear.
C2_SetRtFlag ==
    (call.kind = "set_rt" /\ ~ret.panic) =>
        LET plain == timeval_from_us(call.v)
        IN  IF call.rtclock
            THEN /\ HasRtFlag(self.tv_usec)
                 /\ self.tv_sec = plain.tv_sec
                 /\ ClearRtFlag(self.tv_usec) = ClearRtFlag(plain.tv_usec)
                 /\ plain.tv_usec >= 0 =>
                       self.tv_usec = plain.tv_usec + PA_TIMEVAL_RTCLOCK
                 /\ ret.wc_reads = 0 /\ ret.rt_reads = 0
            ELSE ~HasRtFlag(self.tv_usec)
C2_Witness ==
    /\ call.kind = "set_rt" /\ ~ret.panic /\ call.rtclock
    /\ call.v = 2500000
    /\ self = new(2, 500000 + PA_TIMEVAL_RTCLOCK)

\* C3: set_rt with v = USEC_INVALID panics, for either value of rtclock, before
\* any clock is read and before self is written.
C3_SetRtInvalidAborts ==
    (call.kind = "set_rt" /\ call.v = USEC_INVALID) =>
        /\ ret.panic
        /\ self = call.old
        /\ ret.wc_reads = 0 /\ ret.rt_reads = 0
C3_Witness ==
    /\ call.kind = "set_rt" /\ call.v = USEC_INVALID /\ ~call.rtclock
    /\ ret.panic
    /\ self = new(100, 500000)

\* The microsecond computation of the last checked call leaves the word.
C4_Overflows ==
    CASE call.op \in {"add", "add_us", "add_duration"} -> AddOverflows(OldUs, RhsUs)
      [] call.op \in {"sub", "sub_us", "sub_duration"} -> SubOverflows(OldUs, RhsUs)
      [] call.op = "mul" -> MulOverflows(OldUs, call.rhs)
      [] OTHER -> FALSE
\* Its exact result, where it does not.
C4_Exact ==
    CASE call.op \in {"add", "add_us", "add_duration"} -> OldUs + RhsUs
      [] call.op \in {"sub", "sub_us", "sub_duration"} -> OldUs - RhsUs
      [] call.op = "mul" -> OldUs * call.rhs
      [] call.op = "div" -> TruncDiv(OldUs, call.rhs)
      [] call.op = "rem" -> TruncRem(OldUs, call.rhs)
C5_OperatorsMatchChecked ==
    /\ call.kind = "operator" =>
          LET c == checked(call.op, call.old, call.rhs)
          IN  /\ ret.panic <=> ~c.some
              /\ c.some => ret.val = c.val
              /\ self = call.old
    /\ call.kind = "assign" =>
          LET c == checked(call.op, call.old, call.rhs)
          IN  /\ ret.panic <=> ~c.some
              /\ c.some => self = c.val
              /\ ret.panic => self = call.old
C5_Witness ==
    /\ call.kind = "assign" /\ call.op = "mul"
    /\ call.old = new(100, 500000) /\ call.rhs = 1000
    /\ ret.panic
    /\ self = new(100, 500000)

Canonical(tv) ==
    \/ tv.tv_sec >= 0 /\ tv.tv_usec >= 0 /\ tv.tv_usec < MICROS_PER_SEC
    \/ tv.tv_sec <= 0 /\ tv.tv_usec <= 0 /\ tv.tv_usec > 0 - MICROS_PER_SEC
NonNegative(tv) == tv.tv_sec >= 0 /\ tv.tv_usec >= 0

\* C6: adding two Timevals whose total-microsecond sum is representable yields
\* the Timeval with that total, the microseconds carried into the seconds:
\* new(100, 500000) + new(0, 600000) = new(101, 100000), and for non-negative
\* operands the result's microseconds field lies in [0, 1000000).
C6_AddCarries ==
    (/\ call.kind = "operator" /\ call.op = "add"
     /\ ~AddOverflows(OldUs, RhsUs)
     /\ OldUs # USEC_INVALID /\ RhsUs # USEC_INVALID) =>
        /\ ~ret.panic
        /\ us_from_timeval(ret.val) = OldUs + RhsUs
        /\ Canonical(ret.val)
        /\ (NonNegative(call.old) /\ NonNegative(call.rhs)) =>
              (ret.val.tv_usec >= 0 /\ ret.val.tv_usec < MICROS_PER_SEC)
        /\ (call.old = new(100, 500000) /\ call.rhs = new(0, 600000)) =>
              ret.val = new(101, 100000)
C6_Witness ==
    /\ call.kind = "operator" /\ call.op = "add"
    /\ call.old = new(100, 500000) /\ call.rhs = new(0, 600000)
    /\ ret = Ok(new(101, 100000))

\* C7: for every MicroSeconds value a other than the invalid sentinel,
\* converting a to a Timeval and that Timeval back yields exactly a.
C7_RoundTrip ==
    call.kind = "round_trip" =>
        /\ self = timeval_from_us(call.v)
        /\ ret.us = call.v
C7_Witness ==
    /\ call.kind = "round_trip" /\ call.v = 0 - 1500000
    /\ self = new(0 - 1, 0 - 500000)
    /\ ret.us = 0 - 1500000

\* Neither difference of the two Timevals of the last diff call overflows, and
\* the total microseconds of a are a valid MicroSeconds value.
C8_NoOverflow ==
    /\ OldUs # USEC_INVALID
    /\ ~SubOverflows(OldUs, us_from_timeval(call.b))
    /\ ~SubOverflows(us_from_timeval(call.b), OldUs)
\* C8 as stated: for all Timevals a and b where no overflow occurs,
\* diff(a, b) == -diff(b, a) and a.checked_sub_us(diff(a, b)) == Some(b).
C8_AsStated ==
    (call.kind = "diff" /\ C8_NoOverflow) =>
        /\ ret.ab = 0 - ret.ba
        /\ ret.back = Some(call.b)
\* C8 amended: for all Timevals a and b where no overflow occurs,
\* diff(a, b) == -diff(b, a), and a.checked_sub_us(diff(a, b)) is Some of the
\* Timeval that b's total microseconds convert to, which is b itself when b is
\* in canonical form.
C8_DiffAntisymmetric ==
    (call.kind = "diff" /\ C8_NoOverflow) =>
        /\ ret.ab = 0 - ret.ba
        /\ ret.ab = OldUs - us_from_timeval(call.b)
        /\ ret.back = Some(timeval_from_us(us_from_timeval(call.b)))
        /\ Canonical(call.b) => ret.back = Some(call.b)
C8_Witness ==
    /\ call.kind = "diff" /\ C8_NoOverflow
    /\ call.old = new(100, 500000) /\ call.b = new(101, 100000)
    /\ ret.ab = 0 - 600000
    /\ ret.back = Some(call.b)

LexLess(a, b) ==
    \/ a.tv_sec < b.tv_sec
    \/ a.tv_sec = b.tv_sec /\ a.tv_usec < b.tv_usec
\* C9: the ordering of Timevals is a strict total order that agrees with the
\* lexicographic comparison of the raw (seconds, microseconds) fields, flag
\* bit included: exactly one of a < b, a == b, a > b holds, cmp is Equal
\* exactly when == holds, and a < b and b < c imply a < c.
C9_CmpTotalOrder ==
    call.kind = "cmp" =>
        /\ ret.ab \in {"Less", "Equal", "Greater"}
        /\ ret.ab = "Equal" <=> ret.eq_ab
        /\ ret.ab = "Less" <=> ret.ba = "Greater"
        /\ ret.ab = "Greater" <=> ret.ba = "Less"
        /\ ret.ab = "Less" <=> LexLess(call.old, call.b)
        /\ ret.ab = "Greater" <=> LexLess(call.b, call.old)
        /\ (ret.ab = "Less" /\ ret.bc = "Less") => ret.ac = "Less"
        /\ ret.partial_ab = Some(ret.ab)
C9_Witness ==
    /\ call.kind = "cmp"
    /\ call.old = new(100, 500000)
    /\ call.b = new(100, PA_TIMEVAL_RTCLOCK + 1)
    /\ call.c = new(101, 0)
    /\ ret.ab = "Less" /\ ret.bc = "Less" /\ ret.ac = "Less" /\ ~ret.eq_ab

\* C10: under every interleaving of concurrent wallclock_from_rtclock calls on
\* distinct Timevals, each call reads each clock once, writes only its own
\* Timeval, and its result is a function of its own input and its own two
\* snapshots.
C10_CallsDoNotInterfere ==
    \A t \in Threads :
        /\ reads[t].wc = (IF pc[t] = "call" THEN 0 ELSE 1)
        /\ reads[t].rt = (IF pc[t] \in {"call", "wc_read"} THEN 0 ELSE 1)
        /\ pc[t] # "done" => tvs[t] = input[t]
        /\ pc[t] = "done" =>
              tvs[t] = wallclock_value(input[t], wc_now[t], rt_now[t]).val
C10_Witness ==
    /\ \A t \in Threads : pc[t] = "done"
    /\ wc_now[1] # wc_now[2]
    /\ rt_now[1] # rt_now[2]
    /\ tvs[1] # tvs[2]

\* ------------------------------------------------- pulse-sys: context state
\* pa_context_state_t, in declaration order.
ContextStates == {"Unconnected", "Connecting", "Authorizing", "SettingName",
                  "Ready", "Failed", "Terminated"}

\* is_good as "anything but Unconnected".
pa_context_is_good_not_unconnected(state) == state # "Unconnected"
\* pa_context_is_good
pa_context_is_good(state) ==
    \/ state = "Connecting"
    \/ state = "Authorizing"
    \/ state = "SettingName"
    \/ state = "Ready"

\* The context is reported in state s (the transitions are the daemon
\* library's: any state may follow any other here).
CtxSetState ==
    /\ \E s \in ContextStates \ {ctx_state} :
          ctx_state' = s
    /\ ctx_query' = [asked |-> FALSE]
    /\ UNCHANGED <<family, flags, flags_set, flag_test>>
    /\ UNCHANGED seq_vars
    /\ UNCHANGED conc_vars

\* pa_context_is_good(state)
CtxIsGood ==
    /\ ~ctx_query.asked
    /\ ctx_query' = [asked |-> TRUE, good |-> pa_context_is_good(ctx_state)]
    /\ UNCHANGED <<ctx_state, family, flags, flags_set, flag_test>>
    /\ UNCHANGED seq_vars
    /\ UNCHANGED conc_vars

\* ------------------------------------ pulse-sys: sink and source flags
\* mod sink_flags
PA_SINK_NOFLAGS == 0
PA_SINK_HW_VOLUME_CTRL == 1
PA_SINK_LATENCY == 2
PA_SINK_HARDWARE == 4
PA_SINK_NETWORK == 8
PA_SINK_HW_MUTE_CTRL == 16
PA_SINK_DECIBEL_VOLUME == 32
PA_SINK_FLAT_VOLUME == 64
PA_SINK_DYNAMIC_LATENCY == 128
PA_SINK_SET_FORMATS == 256
\* mod source_flags
PA_SOURCE_NOFLAGS == 0
PA_SOURCE_HW_VOLUME_CTRL == 1
PA_SOURCE_LATENCY == 2
PA_SOURCE_HARDWARE == 4
PA_SOURCE_NETWORK == 8
PA_SOURCE_HW_MUTE_CTRL == 16
PA_SOURCE_DECIBEL_VOLUME == 32
PA_SOURCE_DYNAMIC_LATENCY == 66
PA_SOURCE_FLAT_VOLUME == 128

\* The constants of each family, by name.
sink_flags ==
    ("PA_SINK_NOFLAGS" :> PA_SINK_NOFLAGS) @@
    ("PA_SINK_HW_VOLUME_CTRL" :> PA_SINK_HW_VOLUME_CTRL) @@
    ("PA_SINK_LATENCY" :> PA_SINK_LATENCY) @@
    ("PA_SINK_HARDWARE" :> PA_SINK_HARDWARE) @@
    ("PA_SINK_NETWORK" :> PA_SINK_NETWORK) @@
    ("PA_SINK_HW_MUTE_CTRL" :> PA_SINK_HW_MUTE_CTRL) @@
    ("PA_SINK_DECIBEL_VOLUME" :> PA_SINK_DECIBEL_VOLUME) @@
    ("PA_SINK_FLAT_VOLUME" :> PA_SINK_FLAT_VOLUME) @@
    ("PA_SINK_DYNAMIC_LATENCY" :> PA_SINK_DYNAMIC_LATENCY) @@
    ("PA_SINK_SET_FORMATS" :> PA_SINK_SET_FORMATS)
source_flags ==
    ("PA_SOURCE_NOFLAGS" :> PA_SOURCE_NOFLAGS) @@
    ("PA_SOURCE_HW_VOLUME_CTRL" :> PA_SOURCE_HW_VOLUME_CTRL) @@
    ("PA_SOURCE_LATENCY" :> PA_SOURCE_LATENCY) @@
    ("PA_SOURCE_HARDWARE" :> PA_SOURCE_HARDWARE) @@
    ("PA_SOURCE_NETWORK" :> PA_SOURCE_NETWORK) @@
    ("PA_SOURCE_HW_MUTE_CTRL" :> PA_SOURCE_HW_MUTE_CTRL) @@
    ("PA_SOURCE_DECIBEL_VOLUME" :> PA_SOURCE_DECIBEL_VOLUME) @@
    ("PA_SOURCE_DYNAMIC_LATENCY" :> PA_SOURCE_DYNAMIC_LATENCY) @@
    ("PA_SOURCE_FLAT_VOLUME" :> PA_SOURCE_FLAT_VOLUME)
FamilyFlags(f) == IF f = "sink" THEN sink_flags ELSE source_flags

\* a & b and a | b on unsigned 32-bit values.
RECURSIVE BitAnd(_, _)
BitAnd(a, b) ==
    IF a = 0 \/ b = 0 THEN 0
    ELSE (a % 2) * (b % 2) + 2 * BitAnd(a \div 2, b \div 2)
RECURSIVE BitOr(_, _)
BitOr(a, b) ==
    IF a = 0 THEN b
    ELSE IF b = 0 THEN a
    ELSE (IF a % 2 = 1 \/ b % 2 = 1 THEN 1 ELSE 0)
         + 2 * BitOr(a \div 2, b \div 2)
\* The number of bits set in a.
RECURSIVE PopCount(_)
PopCount(a) == IF a = 0 THEN 0 ELSE (a % 2) + PopCount(a \div 2)

\* A flags value starts as NOFLAGS of either family.
SysInit ==
    /\ ctx_state = "Unconnected"
    /\ ctx_query = [asked |-> FALSE]
    /\ family \in {"sink", "source"}
    /\ flags = 0
    /\ flags_set = {}
    /\ flag_test = [asked |-> FALSE]

\* flags |= <constant>
OrFlag ==
    /\ \E name \in (DOMAIN FamilyFlags(family)) \ flags_set :
          /\ flags' = BitOr(flags, FamilyFlags(family)[name])
          /\ flags_set' = flags_set \cup {name}
    /\ flag_test' = [asked |-> FALSE]
    /\ UNCHANGED <<ctx_state, ctx_query, family>>
    /\ UNCHANGED seq_vars
    /\ UNCHANGED conc_vars

\* (flags & <constant>) != 0, for a non-zero constant
TestFlag ==
    /\ \E name \in DOMAIN FamilyFlags(family) :
          /\ FamilyFlags(family)[name] # 0
          /\ flag_test' = [asked |-> TRUE, name |-> name,
                           isset |-> BitAnd(flags, FamilyFlags(family)[name]) # 0]
    /\ UNCHANGED <<ctx_state, ctx_query, family, flags, flags_set>>
    /\ UNCHANGED seq_vars
    /\ UNCHANGED conc_vars

SysStart == SeqIdle /\ ConcIdle /\ SysInit
SysNext ==
    \/ CtxSetState
    \/ CtxIsGood
    \/ OrFlag
    \/ TestFlag

SysSpec == SysStart /\ [][SysNext]_vars

\* C11: pa_context_is_good(state) is true exactly for Connecting,
\* Authorizing, SettingName and Ready and false for Unconnected, Failed and
\* Terminated; a context in Failed or Terminated is never reported good.
C11_IsGoodExactlyConnected ==
    ctx_query.asked =>
        /\ ctx_query.good <=>
              ctx_state \in {"Connecting", "Authorizing", "SettingName", "Ready"}
        /\ ctx_state \in {"Unconnected", "Failed", "Terminated"}
              => ~ctx_query.good
C11_Witness ==
    /\ ctx_state = "Failed"
    /\ ctx_query = [asked |-> TRUE, good |-> FALSE]

\* C12: the sink flags and the source flags are each distinct single-bit
\* masks: every non-zero constant has exactly one bit set and no two
\* constants of a family share a bit, so in any OR of flags each flag tests
\* as set, with a bitwise AND, exactly when it was OR-ed in.
C12_FlagsAreDistinctBits ==
    flag_test.asked =>
        LET tested == FamilyFlags(family)[flag_test.name]
        IN  /\ PopCount(tested) = 1
            /\ \A other \in (DOMAIN FamilyFlags(family)) \ {flag_test.name} :
                  BitAnd(tested, FamilyFlags(family)[other]) = 0
            /\ flag_test.isset <=> flag_test.name \in flags_set

=============================================================================
